---- MODULE Spec2Model ----
(***************************************************************************)
(* The render-control dispatcher of libOpenglRender (RenderControl.cpp):   *)
(* the GrallocSync ordering gate with the three operations that use it,    *)
(* the string / configuration queries with the trivial-context fallback,   *)
(* and the handle, parameter and checksum-selection operations.            *)
(* Worker threads call the operations; an operation that can               *)
(* block on the gate is split at the blocking point, every other           *)
(* operation is one step.                                                  *)
(***************************************************************************)
EXTENDS Integers, Sequences, FiniteSets, TLC

\* Bounds of the model.
NumThreads == 2
MaxCalls == 4
MaxStrLen == 1
MaxConfigs == 2
NumColorBuffers == 1
MaxRefs == 2
MaxGLVersion == 4
MaxProtocol == 1
NumContexts == 1
MaxDim == 2
MaxPostCount == 1

Threads == 1..NumThreads

\* Color-buffer handles the backend can hand out; 0 is no handle.
ColorBuffers == 1..NumColorBuffers

\* Context handles the backend can hand out; 0 is no handle.
ContextHandles == 1..NumContexts

VARIABLES
    fb,            \* FrameBuffer::getFB() is non-null
    featGralloc,   \* feature flag GrallocSync
    featChecksum,  \* feature flag GLPipeChecksum
    syncInit,      \* the LazyInstance sGrallocSync has been constructed
    mEnabled,      \* GrallocSync::mEnabled
    holder,        \* threads holding mGrallocCbLock: {} or {t}
    pc,            \* per thread: where it is inside a gate operation
    lastOp,        \* per thread: the gate operation it completed last
    lastRet,       \* per thread: what that operation returned
    pending,       \* per thread: ColorBufferCacheFlush returned, update not yet committed
    paired,        \* per thread: its last UpdateColorBuffer followed its own ColorBufferCacheFlush
    stray,         \* some UpdateColorBuffer committed with no ColorBufferCacheFlush before it
    acqLog,        \* threads in the order their ColorBufferCacheFlush returned
    commitLog,     \* threads in the order their backend updates were performed
    calls,         \* gate operations invoked so far
    versionReply,  \* what the last rcGetRendererVersion returned (0: not called yet)
    tInfo,         \* per thread: RenderThreadInfo and its currContext
    q,             \* the query operation whose reply is being returned: inputs and result
    crashed,       \* a null pointer was dereferenced
    fallbackRuns,  \* per thread: create_trivial_context runs since its last bind
    refs,          \* per color-buffer handle: the backend's reference count (0: no such buffer)
    contexts,      \* per context handle: "free", or the kind of the backend's context
    checksumVer    \* per thread: version held by its ChecksumCalculatorThreadInfo

gateVars == <<syncInit, mEnabled, holder, pc, lastOp, lastRet, pending, paired,
              stray, acqLog, commitLog, calls, versionReply>>
queryVars == <<tInfo, q, crashed, fallbackRuns>>
backendVars == <<refs, contexts, checksumVer>>
vars == <<fb, featGralloc, featChecksum, syncInit, mEnabled, holder, pc, lastOp,
          lastRet, pending, paired, stray, acqLog, commitLog, calls, versionReply,
          tInfo, q, crashed, fallbackRuns, refs, contexts, checksumVer>>

NoQuery == [op |-> "none"]

Init ==
    /\ fb = FALSE
    /\ featGralloc \in BOOLEAN
    /\ featChecksum \in BOOLEAN
    /\ syncInit = FALSE
    /\ mEnabled = FALSE
    /\ holder = {}
    /\ pc = [t \in Threads |-> "idle"]
    /\ lastOp = [t \in Threads |-> "none"]
    /\ lastRet = [t \in Threads |-> 0]
    /\ pending = [t \in Threads |-> FALSE]
    /\ paired = [t \in Threads |-> FALSE]
    /\ stray = FALSE
    /\ acqLog = <<>>
    /\ commitLog = <<>>
    /\ calls = 0
    /\ versionReply = 0
    /\ tInfo = [t \in Threads |-> "none"]
    /\ q = NoQuery
    /\ crashed = FALSE
    /\ fallbackRuns = [t \in Threads |-> 0]
    /\ refs = [cb \in ColorBuffers |-> 0]
    /\ contexts = [c \in ContextHandles |-> "free"]
    /\ checksumVer = [t \in Threads |-> 0]

(***************************************************************************)
(* The graphics backend comes into existence (FrameBuffer::initialize).    *)
(***************************************************************************)
InitializeFB ==
    /\ ~crashed
    /\ ~fb
    /\ fb' = TRUE
    /\ UNCHANGED <<featGralloc, featChecksum, gateVars, queryVars, backendVars>>

(***************************************************************************)
(* The ordering gate.                                                      *)
(***************************************************************************)

sGrallocSyncPtr_Reread ==
    /\ syncInit' = TRUE
    /\ mEnabled' = featGralloc

\* sGrallocSync.ptr() / operator->: the first use constructs the GrallocSync,
\* whose constructor reads the feature flag.
sGrallocSyncPtr ==
    /\ syncInit' = TRUE
    /\ mEnabled' = IF syncInit THEN mEnabled ELSE featGralloc

\* android::base::Lock::lock(): blocks until the mutex is free.
MutexLock(t) ==
    /\ holder = {}
    /\ holder' = {t}

\* android::base::Lock::unlock().  Unlocking a mutex the caller does not hold is
\* undefined: the mutex is released (what a default pthread mutex does) or the
\* call has no effect.
MutexUnlock(t) ==
    IF holder = {t} THEN holder' = {} ELSE holder' \in {{}, holder}

lockCb_Always(t) ==
    MutexLock(t)

lockCb_NoLock(t) ==
    holder' = holder

lockCb_Inverted(t) ==
    IF ~mEnabled THEN MutexLock(t) ELSE holder' = holder

lockCb(t) ==
    IF mEnabled THEN MutexLock(t) ELSE holder' = holder

unlockCb(t) ==
    IF mEnabled' THEN MutexUnlock(t) ELSE holder' = holder

\* A worker thread starts a gate operation.
CanCall(t) ==
    /\ ~crashed
    /\ pc[t] = "idle"
    /\ calls < MaxCalls

\* rcColorBufferCacheFlush up to the call of lockCb.
CBCFCall(t) ==
    /\ CanCall(t)
    /\ sGrallocSyncPtr
    /\ pc' = [pc EXCEPT ![t] = "cbcf_lock"]
    /\ calls' = calls + 1
    /\ UNCHANGED <<fb, featGralloc, featChecksum, holder, lastOp, lastRet, pending,
                   paired, stray, acqLog, commitLog, queryVars, backendVars,
                   versionReply>>

rcColorBufferCacheFlushRet_ForRead(colorBuffer, postCount, forRead) ==
    IF forRead = 0 THEN 0 ELSE -1

\* return 0: what rcColorBufferCacheFlush(colorBuffer, postCount, forRead) returns.
rcColorBufferCacheFlushRet(colorBuffer, postCount, forRead) == 0

\* rcColorBufferCacheFlush from lockCb to its return.  The arguments are read
\* nowhere before the return, so they are drawn here.
CBCFLock(t) ==
    /\ ~crashed
    /\ pc[t] = "cbcf_lock"
    /\ lockCb(t)
    /\ pc' = [pc EXCEPT ![t] = "idle"]
    /\ lastOp' = [lastOp EXCEPT ![t] = "CBCF"]
    /\ \E colorBuffer \in 0..NumColorBuffers, postCount \in 0..MaxPostCount,
          forRead \in {0, 1} :
          lastRet' = [lastRet EXCEPT ![t] =
                         rcColorBufferCacheFlushRet(colorBuffer, postCount, forRead)]
    /\ pending' = [pending EXCEPT ![t] = TRUE]
    /\ acqLog' = Append(acqLog, t)
    /\ UNCHANGED <<fb, featGralloc, featChecksum, syncInit, mEnabled, paired, stray,
                   commitLog, calls, queryVars, backendVars,
                   versionReply>>

\* rcFlushWindowColorBuffer up to the call of lockCb.
FWCBCall(t) ==
    /\ CanCall(t)
    /\ sGrallocSyncPtr
    /\ pc' = [pc EXCEPT ![t] = "fwcb_lock"]
    /\ calls' = calls + 1
    /\ UNCHANGED <<fb, featGralloc, featChecksum, holder, lastOp, lastRet, pending,
                   paired, stray, acqLog, commitLog, queryVars, backendVars,
                   versionReply>>

\* rcFlushWindowColorBuffer: lockCb.
FWCBLock(t) ==
    /\ ~crashed
    /\ pc[t] = "fwcb_lock"
    /\ lockCb(t)
    /\ pc' = [pc EXCEPT ![t] = "fwcb_flush"]
    /\ UNCHANGED <<fb, featGralloc, featChecksum, syncInit, mEnabled, lastOp, lastRet,
                   pending, paired, stray, acqLog, commitLog, calls, queryVars, backendVars,
                   versionReply>>

\* rcFlushWindowColorBuffer after lockCb: the backend lookup, the backend flush
\* (flushOk: flushWindowSurfaceColorBuffer found the surface), the unlock.
FWCBFlush(t, flushOk) ==
    /\ ~crashed
    /\ pc[t] = "fwcb_flush"
    /\ sGrallocSyncPtr
    /\ IF ~fb \/ ~flushOk
         THEN /\ holder' = holder
              /\ lastRet' = [lastRet EXCEPT ![t] = -1]
         ELSE /\ unlockCb(t)
              /\ lastRet' = [lastRet EXCEPT ![t] = 0]
    /\ pc' = [pc EXCEPT ![t] = "idle"]
    /\ lastOp' = [lastOp EXCEPT ![t] = "FWCB"]
    /\ UNCHANGED <<fb, featGralloc, featChecksum, pending, paired, stray, acqLog,
                   commitLog, calls, queryVars, backendVars,
                   versionReply>>

\* rcUpdateColorBuffer: never blocks.
UpdateColorBuffer(t) ==
    /\ CanCall(t)
    /\ calls' = calls + 1
    /\ lastOp' = [lastOp EXCEPT ![t] = "Update"]
    /\ paired' = [paired EXCEPT ![t] = pending[t]]
    /\ IF ~fb
         THEN /\ lastRet' = [lastRet EXCEPT ![t] = -1]
              /\ UNCHANGED <<syncInit, mEnabled, holder, pending, stray, commitLog>>
         ELSE /\ commitLog' = Append(commitLog, t)
              /\ stray' = (stray \/ ~pending[t])
              /\ pending' = [pending EXCEPT ![t] = FALSE]
              /\ sGrallocSyncPtr
              /\ unlockCb(t)
              /\ lastRet' = [lastRet EXCEPT ![t] = 0]
    /\ UNCHANGED <<fb, featGralloc, featChecksum, pc, acqLog, queryVars, backendVars,
                   versionReply>>

(***************************************************************************)
(* Strings and caller buffers.  A C string is null or a sequence of        *)
(* characters; a buffer is null or bufferSize cells, each holding what was *)
(* written to it or Unwritten.                                             *)
\* static const GLint rendererVersion
rendererVersion == 1

\* rcGetRendererVersion: touches the gate singleton, returns the constant.
GetRendererVersion(t) ==
    /\ ~crashed
    /\ pc[t] = "idle"
    /\ sGrallocSyncPtr
    /\ versionReply' = rendererVersion
    /\ UNCHANGED <<fb, featGralloc, featChecksum, holder, pc, lastOp, lastRet, pending,
                   paired, stray, acqLog, commitLog, calls, queryVars, backendVars>>

\* The feature-control setting GrallocSync is changed while the process runs.
SetGrallocSyncFeature(b) ==
    /\ ~crashed
    /\ featGralloc # b
    /\ featGralloc' = b
    /\ UNCHANGED <<fb, featChecksum, gateVars, queryVars, backendVars>>

(***************************************************************************)
Alphabet == {"e", " "}
NUL == "NUL"
Unwritten == "?"

SeqsUpTo(n) == UNION {[1..k -> Alphabet] : k \in 0..n}

NullStr == [null |-> TRUE, s |-> <<>>]
Str(s) == [null |-> FALSE, s |-> s]
\* What eglQueryString / glGetString can return: null for a name the driver
\* does not know.
DriverStrings == {NullStr} \cup {Str(s) : s \in SeqsUpTo(MaxStrLen)}

\* ChecksumCalculatorThreadInfo::getMaxVersionString(): a token no driver reports.
MaxVersionString == <<"K", "1">>

GLNames == {"GL_EXTENSIONS", "GL_VENDOR"}

MaxCap == MaxStrLen + Len(MaxVersionString) + 2

\* The caller's buffers: a null buffer has no cells.
Buffers ==
    {[null |-> TRUE, cap |-> 0]} \cup {[null |-> FALSE, cap |-> c] : c \in 0..MaxCap}

Fresh(cap) == [i \in 1..cap |-> Unwritten]

Min(a, b) == IF a < b THEN a ELSE b

strlen(s) == Len(s)

\* strlen(str) + 1
EncLen_NoTerminator(s) == strlen(s)

EncLen(s) == strlen(s) + 1

\* strcpy(buffer, str): the characters and the terminator.
strcpy(cells, s) ==
    [i \in 1..Len(cells) |->
        IF i <= Len(s) THEN s[i] ELSE IF i = Len(s) + 1 THEN NUL ELSE cells[i]]

\* snprintf(buffer, size, ...) of the formatted text out: at most size - 1
\* characters and the terminator.
snprintf(cells, size, out) ==
    IF size <= 0
      THEN cells
      ELSE LET n == Min(Len(out), size - 1) IN
           [i \in 1..Len(cells) |->
               IF i <= n THEN out[i] ELSE IF i = n + 1 THEN NUL ELSE cells[i]]

StrOrEmpty(str) == IF str.null THEN <<>> ELSE str.s

\* rcQueryEGLString: the return value and the buffer after the call.
QueryEGLStringReply(fbv, str, buf) ==
    LET len == EncLen(str.s) IN
    IF ~fbv THEN [ret |-> 0, cells |-> Fresh(buf.cap)]
    ELSE IF str.null THEN [ret |-> 0, cells |-> Fresh(buf.cap)]
    ELSE IF buf.null \/ len > buf.cap THEN [ret |-> -len, cells |-> Fresh(buf.cap)]
    ELSE [ret |-> len, cells |-> strcpy(Fresh(buf.cap), str.s)]

AppendsProtocol_AnyName(checksum, name) == checksum

\* isChecksumEnabled && name == GL_EXTENSIONS
AppendsProtocol(checksum, name) == checksum /\ name = "GL_EXTENSIONS"

\* rcGetGLString from the feature test on: len is the length found so far
\* (0 for no string).
GLStringReply(str, len, checksum, name, buf) ==
    LET app == AppendsProtocol(checksum, name)
        len2 == IF app
                  THEN (IF len = 0 THEN 1 ELSE len) + strlen(MaxVersionString) + 1
                  ELSE len
    IN
    IF buf.null \/ len2 > buf.cap THEN [ret |-> -len2, cells |-> Fresh(buf.cap)]
    ELSE IF app
      THEN [ret |-> len2,
            cells |-> snprintf(Fresh(buf.cap), buf.cap,
                               StrOrEmpty(str) \o MaxVersionString \o <<" ">>)]
    ELSE IF ~str.null THEN [ret |-> len2, cells |-> strcpy(Fresh(buf.cap), str.s)]
    ELSE [ret |-> 0,
          cells |-> IF buf.cap >= 1
                      THEN [Fresh(buf.cap) EXCEPT ![1] = NUL]
                      ELSE Fresh(buf.cap)]

\* rcGetGLString with a bound context: the length of the driver's string.
BoundLen(str) == IF str.null THEN 0 ELSE EncLen(str.s)

HasContext(t) == tInfo[t] \in {"gl1", "gl2"}

(***************************************************************************)
(* The query operations.  Each is one step and records its call in q.      *)
(***************************************************************************)
Call(op, t) == [op |-> op, thr |-> t, fbAtCall |-> fb, ctxAtCall |-> tInfo[t],
                checksum |-> featChecksum]

Crash(c) ==
    /\ crashed' = TRUE
    /\ q' = c

\* A worker thread starts a query operation.
CanQuery ==
    /\ ~crashed
    /\ q = NoQuery

\* The reply of the last query operation has gone back to the guest.
Reply ==
    /\ ~crashed
    /\ q # NoQuery
    /\ q' = NoQuery
    /\ UNCHANGED <<fb, featGralloc, featChecksum, gateVars, backendVars, tInfo, crashed,
                   fallbackRuns>>

\* A render thread creates its RenderThreadInfo.
RenderThreadStart(t) ==
    /\ ~crashed
    /\ tInfo[t] = "none"
    /\ tInfo' = [tInfo EXCEPT ![t] = "noctx"]
    /\ UNCHANGED <<fb, featGralloc, featChecksum, gateVars, backendVars, q, crashed,
                   fallbackRuns>>

\* rcMakeCurrent: bindContext binds a context of the given kind to the thread
\* ("noctx" unbinds), or fails.
MakeCurrent(t, kind, ok) ==
    /\ CanQuery
    /\ tInfo[t] # "none"
    /\ IF fb /\ ok
         THEN /\ tInfo' = [tInfo EXCEPT ![t] = kind]
              /\ fallbackRuns' = [fallbackRuns EXCEPT ![t] = 0]
              /\ q' = Call("MakeCurrent", t) @@ [ret |-> 1]
         ELSE /\ tInfo' = tInfo
              /\ fallbackRuns' = fallbackRuns
              /\ q' = Call("MakeCurrent", t) @@ [ret |-> 0]
    /\ UNCHANGED <<fb, featGralloc, featChecksum, gateVars, backendVars, crashed>>

\* rcQueryEGLString(name, buffer, bufferSize); str is what eglQueryString returns.
QueryEGLString(t, str, buf) ==
    /\ CanQuery
    /\ LET r == QueryEGLStringReply(fb, str, buf) IN
       q' = Call("QueryEGLString", t) @@
            [str |-> str, buf |-> buf, ret |-> r.ret, cells |-> r.cells]
    /\ UNCHANGED <<fb, featGralloc, featChecksum, gateVars, backendVars, tInfo, crashed,
                   fallbackRuns>>

\* tInfo->currContext = RenderContextPtr(create_trivial_context())
RetainTrivial_Dropped(t) == tInfo

RetainTrivial(t) == [tInfo EXCEPT ![t] = "gl2"]

\* rcGetGLString(name, buffer, bufferSize); str is what glGetString returns,
\* created whether RenderContext::create gives a context.
GetGLString(t, name, str, buf, created) ==
    /\ CanQuery
    /\ HasContext(t) => created
    /\ LET c == Call("GetGLString", t) @@ [name |-> name, str |-> str, buf |-> buf] IN
       IF HasContext(t)
         THEN LET r == GLStringReply(str, BoundLen(str), featChecksum, name, buf) IN
              /\ q' = c @@ [ret |-> r.ret, cells |-> r.cells]
              /\ UNCHANGED <<tInfo, crashed, fallbackRuns>>
         ELSE \* create_trivial_context, then tInfo->currContext = ..., then strlen(str)
              IF ~fb \/ ~created
                THEN /\ Crash(c)
                     /\ UNCHANGED <<tInfo, fallbackRuns>>
                ELSE /\ fallbackRuns' = [fallbackRuns EXCEPT ![t] = @ + 1]
                     /\ IF tInfo[t] = "none"
                          THEN /\ Crash(c)
                               /\ tInfo' = tInfo
                          ELSE /\ tInfo' = RetainTrivial(t)
                               /\ IF str.null
                                    THEN Crash(c)
                                    ELSE LET r == GLStringReply(str, EncLen(str.s),
                                                                featChecksum, name, buf) IN
                                         /\ q' = c @@ [ret |-> r.ret, cells |-> r.cells]
                                         /\ crashed' = crashed
    /\ UNCHANGED <<fb, featGralloc, featChecksum, gateVars, backendVars>>

\* rcGetNumConfigs; n is the backend's number of configurations.
GetNumConfigs(t, n) ==
    /\ CanQuery
    /\ IF ~fb
         THEN Crash(Call("GetNumConfigs", t))
         ELSE /\ q' = Call("GetNumConfigs", t) @@ [ret |-> n]
              /\ crashed' = crashed
    /\ UNCHANGED <<fb, featGralloc, featChecksum, gateVars, backendVars, tInfo,
                   fallbackRuns>>

\* FbConfigList::packConfigs: n units packed, or -n for a buffer too small.
packConfigs(bufferSize, n) == IF bufferSize < n THEN -n ELSE n

\* rcGetConfigs(bufSize, buffer)
GetConfigs(t, buf, n) ==
    /\ CanQuery
    /\ IF ~fb
         THEN Crash(Call("GetConfigs", t))
         ELSE /\ q' = Call("GetConfigs", t) @@ [ret |-> packConfigs(buf.cap, n)]
              /\ crashed' = crashed
    /\ UNCHANGED <<fb, featGralloc, featChecksum, gateVars, backendVars, tInfo,
                   fallbackRuns>>

(***************************************************************************)
(* The handle operations, the framebuffer parameters and the checksum      *)
(* selection.  A reply records in q.backend the call made on the backend.  *)
(***************************************************************************)
NoBackendCall == [fn |-> "none"]

\* FrameBuffer::createColorBuffer: a new buffer with one reference, 0 when no
\* handle is left.
createColorBuffer(rs) ==
    IF \E cb \in ColorBuffers : rs[cb] = 0
      THEN LET cb == CHOOSE c \in ColorBuffers : rs[c] = 0 IN
           [ret |-> cb, refs |-> [rs EXCEPT ![cb] = 1]]
      ELSE [ret |-> 0, refs |-> rs]

\* FrameBuffer::openColorBuffer: one more reference on an existing buffer, -1
\* for a handle that names none.
openColorBuffer(rs, cb) ==
    IF cb \in ColorBuffers /\ rs[cb] > 0
      THEN [ret |-> 0, refs |-> [rs EXCEPT ![cb] = @ + 1]]
      ELSE [ret |-> -1, refs |-> rs]

\* FrameBuffer::closeColorBuffer: one reference less; the buffer goes with its
\* last reference.
closeColorBuffer(rs, cb) ==
    IF cb \in ColorBuffers /\ rs[cb] > 0 THEN [rs EXCEPT ![cb] = @ - 1] ELSE rs

rcOpenColorBuffer2(fbv, rs, cb) ==
    IF ~fbv THEN [ret |-> -1, refs |-> rs] ELSE openColorBuffer(rs, cb)

rcOpenColorBuffer_NoOp(fbv, rs, cb) == [refs |-> rs]

\* (void) rcOpenColorBuffer2(colorbuffer)
rcOpenColorBuffer(fbv, rs, cb) == [refs |-> rcOpenColorBuffer2(fbv, rs, cb).refs]

\* rcCreateColorBuffer(width, height, internalFormat)
CreateColorBuffer(t) ==
    /\ CanQuery
    /\ LET r == IF ~fb THEN [ret |-> 0, refs |-> refs] ELSE createColorBuffer(refs) IN
       /\ refs' = r.refs
       /\ q' = Call("CreateColorBuffer", t) @@ [ret |-> r.ret]
    /\ UNCHANGED <<fb, featGralloc, featChecksum, gateVars, tInfo, crashed, fallbackRuns,
                   contexts, checksumVer>>

\* rcOpenColorBuffer2(colorbuffer)
OpenColorBuffer2(t, cb) ==
    /\ CanQuery
    /\ cb \in ColorBuffers => refs[cb] < MaxRefs
    /\ LET r == rcOpenColorBuffer2(fb, refs, cb) IN
       /\ refs' = r.refs
       /\ q' = Call("OpenColorBuffer2", t) @@
               [cb |-> cb, refsBefore |-> refs, ret |-> r.ret]
    /\ UNCHANGED <<fb, featGralloc, featChecksum, gateVars, tInfo, crashed, fallbackRuns,
                   contexts, checksumVer>>

\* rcOpenColorBuffer(colorbuffer): returns nothing.
OpenColorBuffer(t, cb) ==
    /\ CanQuery
    /\ cb \in ColorBuffers => refs[cb] < MaxRefs
    /\ refs' = rcOpenColorBuffer(fb, refs, cb).refs
    /\ q' = Call("OpenColorBuffer", t) @@ [cb |-> cb, refsBefore |-> refs]
    /\ UNCHANGED <<fb, featGralloc, featChecksum, gateVars, tInfo, crashed, fallbackRuns,
                   contexts, checksumVer>>

\* rcCloseColorBuffer(colorbuffer): returns nothing.
CloseColorBuffer(t, cb) ==
    /\ CanQuery
    /\ refs' = IF ~fb THEN refs ELSE closeColorBuffer(refs, cb)
    /\ q' = Call("CloseColorBuffer", t) @@ [cb |-> cb, refsBefore |-> refs]
    /\ UNCHANGED <<fb, featGralloc, featChecksum, gateVars, tInfo, crashed, fallbackRuns,
                   contexts, checksumVer>>

\* glVersion == 2 || glVersion == 3
WantsGL2_OnlyTwo(glVersion) == glVersion = 2

WantsGL2(glVersion) == glVersion = 2 \/ glVersion = 3

\* FrameBuffer::createRenderContext(config, share, isGL2): a new context of the
\* requested kind, 0 when no handle is left.
createRenderContext(cs, isGL2) ==
    IF \E c \in ContextHandles : cs[c] = "free"
      THEN LET c == CHOOSE h \in ContextHandles : cs[h] = "free" IN
           [ret |-> c, contexts |-> [cs EXCEPT ![c] = IF isGL2 THEN "gl2" ELSE "gl1"]]
      ELSE [ret |-> 0, contexts |-> cs]

\* rcCreateContext(config, share, glVersion)
CreateContext(t, config, share, glVersion) ==
    /\ CanQuery
    /\ LET c == Call("CreateContext", t) @@
                [config |-> config, share |-> share, glVersion |-> glVersion] IN
       IF ~fb
         THEN /\ contexts' = contexts
              /\ q' = c @@ [ret |-> 0, backend |-> NoBackendCall]
         ELSE LET isGL2 == WantsGL2(glVersion)
                  r == createRenderContext(contexts, isGL2) IN
              /\ contexts' = r.contexts
              /\ q' = c @@ [ret |-> r.ret,
                            backend |-> [fn |-> "createRenderContext", config |-> config,
                                         share |-> share, isGL2 |-> isGL2]]
    /\ UNCHANGED <<fb, featGralloc, featChecksum, gateVars, tInfo, crashed, fallbackRuns,
                   refs, checksumVer>>

\* rcDestroyContext(context): returns nothing.
DestroyContext(t, context) ==
    /\ CanQuery
    /\ contexts' = IF fb /\ context \in ContextHandles
                     THEN [contexts EXCEPT ![context] = "free"]
                     ELSE contexts
    /\ q' = Call("DestroyContext", t) @@ [context |-> context]
    /\ UNCHANGED <<fb, featGralloc, featChecksum, gateVars, tInfo, crashed, fallbackRuns,
                   refs, checksumVer>>

\* The parameter ids of rcGetFBParam's switch, and one id it does not list.
RecognizedParams == {"FB_WIDTH", "FB_HEIGHT", "FB_XDPI", "FB_YDPI", "FB_FPS",
                     "FB_MIN_SWAP_INTERVAL", "FB_MAX_SWAP_INTERVAL"}
ParamIds == RecognizedParams \cup {"unlisted"}

rcGetFBParam_NoDefault(fbv, param, width, height) ==
    IF param = "FB_WIDTH" THEN width
    ELSE IF param = "FB_HEIGHT" THEN height
    ELSE IF param \in {"FB_XDPI", "FB_YDPI"} THEN 72
    ELSE IF param = "FB_FPS" THEN 60
    ELSE 1

\* rcGetFBParam(param); width and height are what the backend reports.
rcGetFBParam(fbv, param, width, height) ==
    IF ~fbv THEN 0
    ELSE IF param = "FB_WIDTH" THEN width
    ELSE IF param = "FB_HEIGHT" THEN height
    ELSE IF param \in {"FB_XDPI", "FB_YDPI"} THEN 72
    ELSE IF param = "FB_FPS" THEN 60
    ELSE IF param \in {"FB_MIN_SWAP_INTERVAL", "FB_MAX_SWAP_INTERVAL"} THEN 1
    ELSE 0

GetFBParam(t, param, width, height) ==
    /\ CanQuery
    /\ q' = Call("GetFBParam", t) @@
            [param |-> param, ret |-> rcGetFBParam(fb, param, width, height)]
    /\ UNCHANGED <<fb, featGralloc, featChecksum, gateVars, tInfo, crashed, fallbackRuns,
                   backendVars>>

\* The version rcSelectChecksumCalculator hands to setVersion.
SelectedVersion_Reserved(protocol, reserved) == reserved

SelectedVersion(protocol, reserved) == protocol

\* ChecksumCalculatorThreadInfo::setVersion(version): the calling thread's state.
setVersion(t, version) == [checksumVer EXCEPT ![t] = version]

\* rcSelectChecksumCalculator(protocol, reserved): returns nothing.
SelectChecksumCalculator(t, protocol, reserved) ==
    /\ CanQuery
    /\ checksumVer' = setVersion(t, SelectedVersion(protocol, reserved))
    /\ q' = Call("SelectChecksumCalculator", t) @@
            [protocol |-> protocol, reserved |-> reserved]
    /\ UNCHANGED <<fb, featGralloc, featChecksum, gateVars, tInfo, crashed, fallbackRuns,
                   refs, contexts>>

\* The operations on the backend's handles.
BackendNext ==
    \/ InitializeFB
    \/ Reply
    \/ \E t \in Threads : CreateColorBuffer(t)
    \/ \E t \in Threads, cb \in 0..NumColorBuffers : OpenColorBuffer2(t, cb)
    \/ \E t \in Threads, cb \in 0..NumColorBuffers : OpenColorBuffer(t, cb)
    \/ \E t \in Threads, cb \in 0..NumColorBuffers : CloseColorBuffer(t, cb)
    \/ \E t \in Threads, config \in 0..MaxConfigs, share \in 0..NumContexts,
          glVersion \in 0..MaxGLVersion : CreateContext(t, config, share, glVersion)
    \/ \E t \in Threads, context \in 0..NumContexts : DestroyContext(t, context)

SpecBackend == Init /\ [][BackendNext]_vars

\* The parameter query and the checksum selection, beside operations that change
\* the backend's state.
SettingsNext ==
    \/ InitializeFB
    \/ Reply
    \/ \E t \in Threads : CreateColorBuffer(t)
    \/ \E t \in Threads, cb \in 0..NumColorBuffers : CloseColorBuffer(t, cb)
    \/ \E t \in Threads, param \in ParamIds, width \in 1..MaxDim, height \in 1..MaxDim :
          GetFBParam(t, param, width, height)
    \/ \E t \in Threads, protocol \in 0..MaxProtocol, reserved \in 0..MaxProtocol :
          SelectChecksumCalculator(t, protocol, reserved)

SpecSettings == Init /\ [][SettingsNext]_vars

ContextKinds == {"noctx", "gl1", "gl2"}

QueryNext ==
    \/ InitializeFB
    \/ Reply
    \/ \E t \in Threads : RenderThreadStart(t)
    \/ \E t \in Threads, kind \in ContextKinds, ok \in BOOLEAN : MakeCurrent(t, kind, ok)
    \/ \E t \in Threads, n \in 1..MaxConfigs : GetNumConfigs(t, n)
    \/ \E t \in Threads, buf \in Buffers, n \in 1..MaxConfigs : GetConfigs(t, buf, n)
    \/ \E t \in Threads, str \in DriverStrings, buf \in Buffers :
          QueryEGLString(t, str, buf)
    \/ \E t \in Threads, name \in GLNames, str \in DriverStrings, buf \in Buffers,
          created \in BOOLEAN : GetGLString(t, name, str, buf, created)

SpecQuery == Init /\ [][QueryNext]_vars

GateNext ==
    \/ InitializeFB
    \/ \E t \in Threads : CBCFCall(t)
    \/ \E t \in Threads : CBCFLock(t)
    \/ \E t \in Threads : FWCBCall(t)
    \/ \E t \in Threads : FWCBLock(t)
    \/ \E t \in Threads, flushOk \in BOOLEAN : FWCBFlush(t, flushOk)
    \/ \E t \in Threads : UpdateColorBuffer(t)

\* The gate operations leave the query state alone and the query operations the
\* gate state, so each half is checked under its own next-state relation.
SpecGate == Init /\ [][GateNext]_vars

\* The gate operations together with what decides the gate's enabled flag: the
\* version query, which also touches the gate, and changes of the feature flag.
GateFlagNext ==
    \/ GateNext
    \/ \E t \in Threads : GetRendererVersion(t)
    \/ \E b \in BOOLEAN : SetGrallocSyncFeature(b)

SpecGateFlag == Init /\ [][GateFlagNext]_vars

Next == GateFlagNext \/ QueryNext \/ BackendNext \/ SettingsNext

Spec == Init /\ [][Next]_vars

\* The steps a fair scheduler of the worker threads keeps taking: a thread inside
\* an operation runs on.  Which requests the guest sends is not fair.
FairSpecGate ==
    /\ Init
    /\ [][GateNext]_vars
    /\ \A t \in Threads : WF_vars(CBCFLock(t))
    /\ \A t \in Threads : WF_vars(FWCBLock(t))
    /\ \A t \in Threads : WF_vars(\E flushOk \in BOOLEAN : FWCBFlush(t, flushOk))

(***************************************************************************)
(* Properties of the ordering gate.                                        *)
(***************************************************************************)
GateOn == syncInit /\ mEnabled

IsPrefix(s, r) ==
    /\ Len(s) <= Len(r)
    /\ \A i \in 1..Len(s) : s[i] = r[i]

\* A thread is inside a gated section: between the return of its
\* ColorBufferCacheFlush and the end of its UpdateColorBuffer, or in the backend
\* flush of FlushWindowColorBuffer.
InGatedSection(t) ==
    \/ pc[t] = "fwcb_flush"
    \/ lastOp[t] = "CBCF"

WaitingForGate(t) == pc[t] \in {"cbcf_lock", "fwcb_lock"}

\* C1: with the gate enabled and every update following its thread's own
\* ColorBufferCacheFlush, the backend updates are performed in the order in which
\* the ColorBufferCacheFlush calls returned.
C1_CommitOrderIsLockOrder ==
    (GateOn /\ ~stray) => IsPrefix(commitLog, acqLog)

C1_Witness ==
    /\ GateOn
    /\ ~stray
    /\ Len(commitLog) = 2
    /\ commitLog[1] # commitLog[2]

\* C2: with the gate enabled, a thread whose FlushWindowColorBuffer has returned
\* (0 or -1) does not hold the gate.
C2_FlushReleasesGate ==
    \A t \in Threads :
        (GateOn /\ pc[t] = "idle" /\ lastOp[t] = "FWCB") => holder # {t}

\* C3: with the gate enabled, a thread whose UpdateColorBuffer followed its own
\* ColorBufferCacheFlush and has returned (0 or -1) does not hold the gate.
C3_UpdateReleasesGate ==
    \A t \in Threads :
        (GateOn /\ pc[t] = "idle" /\ lastOp[t] = "Update" /\ paired[t])
            => holder # {t}

\* C4: with the gate enabled, at most one thread is inside a gated section.
C4_OneThreadInGatedSection ==
    GateOn => Cardinality({t \in Threads : InGatedSection(t)}) <= 1

\* C5 as stated: with the gate enabled, no operation is blocked at the gate
\* waiting for a further guest request: whenever an operation waits for the
\* gate, the thread holding it is inside FlushWindowColorBuffer and releases it
\* without the guest.
C5_NoOperationWaitsForGuest ==
    \A t \in Threads :
        (GateOn /\ WaitingForGate(t) /\ holder # {})
            => \E u \in holder : pc[u] = "fwcb_flush"

\* C5 as amended: with the gate enabled and fair scheduling, an operation that
\* has passed the gate returns, and a free gate with an operation waiting for it
\* is acquired; an operation waits for as long as the gate stays held.
C5_BlockedOnlyByHeldGate ==
    /\ \A t \in Threads : (pc[t] = "fwcb_flush") ~> (pc[t] = "idle")
    /\ (GateOn /\ holder = {} /\ \E t \in Threads : WaitingForGate(t))
           ~> (holder # {})

C5_Witness ==
    /\ GateOn
    /\ \E t, u \in Threads :
          /\ t # u
          /\ holder = {t}
          /\ pc[t] = "idle"
          /\ lastOp[t] = "CBCF"
          /\ pc[u] = "cbcf_lock"

(***************************************************************************)
(* Properties of the query operations.                                     *)
(***************************************************************************)
StringQueries == {"QueryEGLString", "GetGLString"}
BackendQueries == {"QueryEGLString", "GetGLString", "GetNumConfigs", "GetConfigs"}

\* The query recorded in q ran to its return.
Returned == q.op # "none" /\ ~crashed

\* The characters of the buffer before its first terminator.
RECURSIVE TextOf(_)
TextOf(cells) ==
    IF cells = <<>> \/ Head(cells) = NUL THEN <<>>
    ELSE <<Head(cells)>> \o TextOf(Tail(cells))

Terminated(cells) == \E i \in 1..Len(cells) : cells[i] = NUL

WrittenUnits(cells) == Cardinality({i \in 1..Len(cells) : cells[i] # Unwritten})

Contains(s, sub) ==
    \E i \in 0..(Len(s) - Len(sub)) : SubSeq(s, i + 1, i + Len(sub)) = sub

\* The reply of the string query recorded in q, had the buffer been buf.
ReplyWith(buf) ==
    IF q.op = "QueryEGLString"
      THEN QueryEGLStringReply(q.fbAtCall, q.str, buf)
      ELSE GLStringReply(q.str, BoundLen(q.str), q.checksum, q.name, buf)

BigBuffer == [null |-> FALSE, cap |-> MaxCap]

\* The query recorded in q has an answer: a string to encode.
HasAnswer ==
    IF q.op = "QueryEGLString"
      THEN q.fbAtCall /\ ~q.str.null
      ELSE ~q.str.null \/ (q.checksum /\ q.name = "GL_EXTENSIONS")

\* The true encoded length: the units of the answer in a buffer that holds it
\* all, the terminator included.
TrueLen == Len(TextOf(ReplyWith(BigBuffer).cells)) + 1

\* C6: an operation called while the backend does not exist returns (zero for
\* GetNumConfigs) and dereferences nothing.
C6_AbsentBackendTolerated ==
    (q.op \in BackendQueries /\ ~q.fbAtCall)
        => /\ ~crashed
           /\ q.op = "GetNumConfigs" => q.ret = 0

\* C7: a string query with an answer of encoded length L returns -L and writes
\* nothing when the capacity is below L, returns L and writes exactly L units
\* otherwise, and succeeds when called again with the capacity a negative return
\* asked for.
C7_LengthConvention ==
    (Returned /\ q.op \in StringQueries /\ HasAnswer) =>
        LET L == TrueLen IN
        /\ q.buf.cap < L => (q.ret = -L /\ WrittenUnits(q.cells) = 0)
        /\ q.buf.cap >= L =>
              /\ q.ret = L
              /\ WrittenUnits(q.cells) = L
              /\ Terminated(q.cells)
        /\ q.ret < 0 => ReplyWith([null |-> FALSE, cap |-> -q.ret]).ret > 0

C7_Witness ==
    /\ Returned
    /\ q.op = "GetGLString"
    /\ q.checksum
    /\ q.name = "GL_EXTENSIONS"
    /\ ~q.str.null
    /\ Len(q.str.s) = MaxStrLen
    /\ q.ret = MaxCap

\* C8: a string query that returns 0 to a caller with room for it has written an
\* empty terminated string.
C8_ZeroMeansEmptyStringWritten ==
    (Returned /\ q.op \in StringQueries /\ q.ret = 0 /\ q.buf.cap >= 1)
        => q.cells[1] = NUL

\* C9: GetGLString on a thread with no bound context returns, and the thread's
\* registry entry then holds a bound context.
C9_FallbackSucceeds ==
    (q.op = "GetGLString" /\ q.ctxAtCall \in {"none", "noctx"})
        => /\ ~crashed
           /\ HasContext(q.thr)

\* C10: the text GetGLString returns contains the checksum-protocol token for
\* the extensions name with the feature enabled, and is the driver's string,
\* with no token, in every other case.
C10_TokenOnlyInExtensions ==
    (Returned /\ q.op = "GetGLString" /\ q.ret >= 0 /\ q.buf.cap >= 1) =>
        LET text == TextOf(q.cells) IN
        IF q.name = "GL_EXTENSIONS" /\ q.checksum
          THEN Contains(text, MaxVersionString)
          ELSE /\ text = StrOrEmpty(q.str)
               /\ ~Contains(text, MaxVersionString)

C10_Witness ==
    /\ Returned
    /\ q.op = "GetGLString"
    /\ q.name = "GL_EXTENSIONS"
    /\ q.checksum
    /\ q.str.null
    /\ q.ret > 0

(***************************************************************************)
(* The gate when the feature is off, and what touches the gate.            *)
(***************************************************************************)
GateOff == syncInit /\ ~mEnabled

\* C11: with the gate disabled the gate is a no-op: the lock is never taken, a
\* thread at the lock step of ColorBufferCacheFlush or FlushWindowColorBuffer, or
\* inside the flush, can always take its next step whatever the other threads
\* have done (nothing orders the updates: see the witness).
C11_DisabledGateIsNoOp ==
    GateOff =>
        /\ holder = {}
        /\ \A t \in Threads :
              /\ pc[t] = "cbcf_lock" => ENABLED CBCFLock(t)
              /\ pc[t] = "fwcb_lock" => ENABLED FWCBLock(t)
              /\ pc[t] = "fwcb_flush" => ENABLED (\E flushOk \in BOOLEAN : FWCBFlush(t, flushOk))

\* Two paired updates committed in the opposite order of their
\* ColorBufferCacheFlush calls, with the gate disabled.
C11_Witness ==
    /\ GateOff
    /\ ~stray
    /\ Len(commitLog) = 2
    /\ Len(acqLog) = 2
    /\ commitLog[1] = acqLog[2]
    /\ commitLog[2] = acqLog[1]
    /\ acqLog[1] # acqLog[2]

(***************************************************************************)
(* Properties of the handle operations.                                    *)
(***************************************************************************)

\* C12: OpenColorBuffer does to the backend exactly what OpenColorBuffer2 does
\* from the same backend state and handle (the same reference counts after the
\* call, whether the backend exists or not, whether the handle names a buffer or
\* not), and gives the caller no status.
C12_OpenColorBufferAsOpenColorBuffer2 ==
    q.op = "OpenColorBuffer" =>
        /\ refs = rcOpenColorBuffer2(q.fbAtCall, q.refsBefore, q.cb).refs
        /\ "ret" \notin DOMAIN q
        /\ ~crashed

C12_Witness ==
    /\ q.op = "OpenColorBuffer"
    /\ q.cb \in ColorBuffers
    /\ refs[q.cb] = q.refsBefore[q.cb] + 1

\* C13: CreateContext asks the backend for the GLES2 kind exactly when the hint
\* is 2 or 3 and for the GLES1 kind for every other hint, hands config and share
\* to the backend as given, and with no backend returns 0 with no backend call.
C13_ContextKindFromHint ==
    q.op = "CreateContext" =>
        IF q.fbAtCall
          THEN q.backend = [fn |-> "createRenderContext", config |-> q.config,
                            share |-> q.share, isGL2 |-> (q.glVersion \in {2, 3})]
          ELSE /\ q.ret = 0
               /\ q.backend = NoBackendCall
               /\ \A c \in ContextHandles : contexts[c] = "free"

C13_Witness ==
    /\ q.op = "CreateContext"
    /\ q.glVersion = 3
    /\ q.share # 0
    /\ q.ret \in ContextHandles
    /\ contexts[q.ret] = "gl2"

\* C14: a SelectChecksumCalculator(protocolVersion, reserved) call sets the
\* calling thread's checksum version to protocolVersion whatever reserved is and
\* changes no other thread's version, nothing of the gate and nothing of the
\* backend; and a thread's version changes in no other step, so a thread that
\* never called it keeps the initial version.
C14_SelectSetsOnlyCallerVersion ==
    [][/\ (q = NoQuery /\ q'.op = "SelectChecksumCalculator") =>
             /\ checksumVer' = [checksumVer EXCEPT ![q'.thr] = q'.protocol]
             /\ UNCHANGED <<fb, gateVars, refs, contexts, tInfo, crashed>>
       /\ \A t \in Threads :
             checksumVer'[t] # checksumVer[t] =>
                 (q = NoQuery /\ q'.op = "SelectChecksumCalculator" /\ q'.thr = t)]_vars

C14_Witness ==
    /\ q.op = "SelectChecksumCalculator"
    /\ q.protocol # q.reserved
    /\ checksumVer[q.thr] = q.protocol
    /\ q.protocol # 0
    /\ \E u \in Threads : u # q.thr /\ checksumVer[u] = 0

\* C15: GetFramebufferParam returns 0 for every parameter id outside the
\* recognized set, and 0 for every id when no backend exists.
C15_UnrecognizedOrNoBackendIsZero ==
    q.op = "GetFBParam" =>
        /\ ~crashed
        /\ (q.param \notin RecognizedParams \/ ~q.fbAtCall) => q.ret = 0

C15_Witness ==
    /\ q.op = "GetFBParam"
    /\ q.fbAtCall
    /\ q.param \notin RecognizedParams
    /\ q.ret = 0

(***************************************************************************)
(* More properties of the ordering gate.                                   *)
(***************************************************************************)

\* C16: ColorBufferCacheFlush returns 0 for every colorBuffer, postCount and
\* forRead, with or without a backend; its steps change nothing of the backend
\* and nothing of any thread's state, and the gate only by the caller taking
\* the lock when the gate is enabled.
C16_CacheFlushOnlyTakesGate ==
    [][\A t \in Threads :
          /\ (pc[t] = "idle" /\ pc'[t] = "cbcf_lock") =>
                UNCHANGED <<fb, holder, commitLog, lastRet, queryVars, backendVars>>
          /\ (pc[t] = "cbcf_lock" /\ pc'[t] = "idle") =>
                /\ lastRet'[t] = 0
                /\ holder' = IF mEnabled THEN {t} ELSE holder
                /\ UNCHANGED <<fb, syncInit, mEnabled, commitLog, queryVars,
                               backendVars>>]_vars

C16_Witness ==
    \E t \in Threads :
        /\ ~fb
        /\ pc[t] = "idle"
        /\ lastOp[t] = "CBCF"
        /\ lastRet[t] = 0
        /\ holder = {t}

(***************************************************************************)
(* More properties of the string queries.                                  *)
(***************************************************************************)

\* C17: with the checksum feature on and the extensions name, the version token
\* in the answer is separated by a space from the last extension token of the
\* driver's string: whenever the driver's string holds an extension token, the
\* character before the version token is a space, whether or not the driver's
\* string ends in a space.
C17_TokenSpaceSeparated ==
    (/\ Returned
     /\ q.op = "GetGLString"
     /\ q.checksum
     /\ q.name = "GL_EXTENSIONS"
     /\ q.ret > 0
     /\ \E j \in 1..Len(StrOrEmpty(q.str)) : q.str.s[j] # " ") =>
        LET text == TextOf(q.cells) IN
        \E i \in 2..(Len(text) - Len(MaxVersionString) + 1) :
            /\ SubSeq(text, i, i + Len(MaxVersionString) - 1) = MaxVersionString
            /\ text[i - 1] = " "

\* C18: the trivial context is retained and reused: on a thread that binds no
\* other context, create_trivial_context runs at most once however many times
\* GetGLString is called, and after it has run the thread has its context, from
\* which later calls answer.
C18_FallbackRunsAtMostOnce ==
    \A t \in Threads :
        /\ fallbackRuns[t] <= 1
        /\ (fallbackRuns[t] = 1 /\ ~crashed) => tInfo[t] = "gl2"

\* A GetGLString answered from the context an earlier fallback left.
C18_Witness ==
    /\ Returned
    /\ q.op = "GetGLString"
    /\ q.ctxAtCall = "gl2"
    /\ fallbackRuns[q.thr] = 1

(***************************************************************************)
(* The gate's enabled flag and who releases the gate.                      *)
(***************************************************************************)

\* C19: the enabled flag is derived once, from the feature flag as it is when
\* the first of GetRendererVersion, ColorBufferCacheFlush,
\* FlushWindowColorBuffer or UpdateColorBuffer touches the gate, and keeps that
\* value whatever the feature flag becomes later; before that no lock is held.
C19_EnabledDerivedOnce ==
    [][/\ syncInit => (syncInit' /\ mEnabled' = mEnabled)
       /\ (~syncInit /\ syncInit') =>
             /\ mEnabled' = featGralloc
             /\ versionReply' # versionReply \/ calls' = calls + 1
       /\ ~syncInit => holder = {}
       /\ (\/ versionReply' # 0
           \/ \E t \in Threads : pc'[t] # "idle"
           \/ \E t \in Threads : lastOp'[t] # "none" /\ lastRet'[t] = 0) => syncInit']_vars

\* The feature flag has changed since the gate read it, and the gate is held.
C19_Witness ==
    /\ syncInit
    /\ mEnabled
    /\ ~featGralloc
    /\ holder # {}
    /\ versionReply = rendererVersion

\* C20: with the gate enabled, the gate is released only by the thread that
\* holds it: every step that calls unlockCb (an UpdateColorBuffer that commits,
\* a FlushWindowColorBuffer that succeeds) is taken by the holder, never with
\* the gate free or held by another thread.
C20_OnlyHolderReleases ==
    [][\A t \in Threads :
          (/\ mEnabled'
           /\ \/ commitLog' = Append(commitLog, t)
              \/ (pc[t] = "fwcb_flush" /\ pc'[t] = "idle" /\ lastRet'[t] = 0)) =>
              holder = {t}]_vars
====
